---------------------------- MODULE Spec2Model ----------------------------
(***************************************************************************)
(* Model of the client-side iframe interceptor (src/utils/iframe-          *)
(* interceptor.ts, reproduced in src/IFRAME_INTERCEPTION.md lines 335-652).*)
(*                                                                         *)
(* The state is one embedding element (the iframe), the realm it currently *)
(* hosts, and that realm's document.  Every handler of the source is one   *)
(* action; `last` records what the most recent handler did (the calls it   *)
(* made on its collaborators, what it returned, whether it raised).        *)
(*                                                                         *)
(* Strings are sequences of one-character strings, so that toLowerCase,    *)
(* includes and concatenation are computed rather than assumed.            *)
(***************************************************************************)
EXTENDS Naturals, Sequences, FiniteSets

VARIABLES iframeSrc, loadListeners, realm, present, targetAttr, pending,
          standInStore, last

vars == <<iframeSrc, loadListeners, realm, present, targetAttr, pending,
          standInStore, last>>

-----------------------------------------------------------------------------
(* Bounds of the model *)

\* setupIframeInterceptor calls on the one iframe
MaxBinds == 2

\* direct calls of the exported injectIframeInterceptor per realm
MaxDirect == 1

-----------------------------------------------------------------------------
(* JavaScript values *)

\* the value undefined (no string is a sequence holding this token)
Undefined == <<"undefined">>

\* the empty string
EmptyString == <<>>

\* JavaScript truthiness of a string-or-undefined value: `!url` is true for
\* undefined and for ""
Truthy(v) == v # Undefined /\ v # EmptyString

UpperChars == <<"A","B","C","D","E","F","G","H","I","J","K","L","M","N","O","P","Q","R","S","T","U","V","W","X","Y","Z">>

LowerChars == <<"a","b","c","d","e","f","g","h","i","j","k","l","m","n","o","p","q","r","s","t","u","v","w","x","y","z">>

UpperSet == {UpperChars[i] : i \in 1..Len(UpperChars)}

\* String.prototype.toLowerCase on one character
LowerChar(c) ==
    IF c \in UpperSet
    THEN LowerChars[CHOOSE i \in 1..Len(UpperChars) : UpperChars[i] = c]
    ELSE c

\* String.prototype.toLowerCase
toLowerCase(s) == [i \in 1..Len(s) |-> LowerChar(s[i])]

\* String.prototype.includes: sub occurs in s at some position
includes(s, sub) ==
    \E i \in 1..(Len(s) + 1) :
        /\ i + Len(sub) - 1 <= Len(s)
        /\ \A j \in 1..Len(sub) : s[i + j - 1] = sub[j]

\* String.prototype.startsWith
startsWith(s, pre) == Len(pre) <= Len(s) /\ SubSeq(s, 1, Len(pre)) = pre

-----------------------------------------------------------------------------
(* Trusted-Domain Classifier *)

\* the allowlist, in source order
CAPTCHA_DOMAINS == <<
    \* "recaptcha"
    <<"r","e","c","a","p","t","c","h","a">>,
    \* "hcaptcha"
    <<"h","c","a","p","t","c","h","a">>,
    \* "turnstile"
    <<"t","u","r","n","s","t","i","l","e">>,
    \* "challenges.cloudflare.com"
    <<"c","h","a","l","l","e","n","g","e","s",".","c","l","o","u","d","f","l","a","r","e",".","c","o","m">>,
    \* "gstatic.com/recaptcha"
    <<"g","s","t","a","t","i","c",".","c","o","m","/","r","e","c","a","p","t","c","h","a">>
>>

isCaptchaUrl_NoLower(url) ==
    \E k \in 1..Len(CAPTCHA_DOMAINS) : includes(url, CAPTCHA_DOMAINS[k])

\* isCaptchaUrl: lower-case the url, then some allowlist entry is a substring
isCaptchaUrl(url) ==
    LET urlLower == toLowerCase(url)
    IN  \E k \in 1..Len(CAPTCHA_DOMAINS) : includes(urlLower, CAPTCHA_DOMAINS[k])

-----------------------------------------------------------------------------
(* The URLs the model draws its inputs from *)

\* "https://x.test/p": an ordinary absolute address
U_Page == <<"h","t","t","p","s",":","/","/","x",".","t","e","s","t","/","p">>

\* "https://HCaptcha.com/c": a verification-challenge address, mixed case
U_Captcha == <<"h","t","t","p","s",":","/","/","H","C","a","p","t","c","h","a",".","c","o","m","/","c">>

\* "/p": a relative address, as written in an href attribute
U_Relative == <<"/","p">>

\* "https://x.test": the origin of the contained document
BaseOrigin == <<"h","t","t","p","s",":","/","/","x",".","t","e","s","t">>

\* "https://"
Scheme == <<"h","t","t","p","s",":","/","/">>

\* "/uv/"
EncodePrefix == <<"/","u","v","/">>

\* the addresses that reach the classifier through open calls and clicks
ModelUrls == {U_Page, U_Captcha}

\* the addresses the classifier is asked about: hosts and paths that name a
\* verification-challenge provider in full, in part, in another case, or not
\* at all
ClassifierHosts == {
    \* "www.google.com/recaptcha/api.js"
    <<"w","w","w",".","g","o","o","g","l","e",".","c","o","m","/","r","e","c","a","p","t","c","h","a","/","a","p","i",".","j","s">>,
    \* "google.com/search"
    <<"g","o","o","g","l","e",".","c","o","m","/","s","e","a","r","c","h">>,
    \* "hcaptcha.com/1/api.js"
    <<"h","c","a","p","t","c","h","a",".","c","o","m","/","1","/","a","p","i",".","j","s">>,
    \* "HCaptcha.com/c"
    <<"H","C","a","p","t","c","h","a",".","c","o","m","/","c">>,
    \* "challenges.cloudflare.com/turnstile/v0"
    <<"c","h","a","l","l","e","n","g","e","s",".","c","l","o","u","d","f","l","a","r","e",".","c","o","m","/","t","u","r","n","s","t","i","l","e","/","v","0">>,
    \* "x.test/turnstile.js"
    <<"x",".","t","e","s","t","/","t","u","r","n","s","t","i","l","e",".","j","s">>,
    \* "www.gstatic.com/recaptcha/r.js"
    <<"w","w","w",".","g","s","t","a","t","i","c",".","c","o","m","/","r","e","c","a","p","t","c","h","a","/","r",".","j","s">>,
    \* "gstatic.com/fonts"
    <<"g","s","t","a","t","i","c",".","c","o","m","/","f","o","n","t","s">>,
    \* "yandex.ru/captcha"
    <<"y","a","n","d","e","x",".","r","u","/","c","a","p","t","c","h","a">>,
    \* "RECAPTCHA.NET/x"
    <<"R","E","C","A","P","T","C","H","A",".","N","E","T","/","x">>,
    \* "x.test/p"
    <<"x",".","t","e","s","t","/","p">>,
    \* "captcha.test/"
    <<"c","a","p","t","c","h","a",".","t","e","s","t","/">>,
    \* "recaptch.test/a"
    <<"r","e","c","a","p","t","c","h",".","t","e","s","t","/","a">>,
    \* "x.test/?u=hcaptcha"
    <<"x",".","t","e","s","t","/","?","u","=","h","c","a","p","t","c","h","a">>
}

ClassifierPrefixes == {
    \* "https://"
    <<"h","t","t","p","s",":","/","/">>,
    \* "http://"
    <<"h","t","t","p",":","/","/">>,
    \* "//"
    <<"/","/">>
}

ClassifierUrls ==
    {p \o h : p \in ClassifierPrefixes, h \in ClassifierHosts} \cup {EmptyString}

\* isCaptchaUrl tabulated over those addresses (evaluated once, not per call)
isCaptchaUrlOf == [u \in ModelUrls \cup ClassifierUrls |-> isCaptchaUrl(u)]

-----------------------------------------------------------------------------
(* Network-request patching (captcha-handler.ts): the patched fetch and the  *)
(* patched XMLHttpRequest.open decide with their own list                    *)

\* CAPTCHA_DOMAINS of captcha-handler.ts, in source order
CAPTCHA_DOMAINS_handler == <<
    \* "google.com"
    <<"g","o","o","g","l","e",".","c","o","m">>,
    \* "recaptcha.net"
    <<"r","e","c","a","p","t","c","h","a",".","n","e","t">>,
    \* "gstatic.com"
    <<"g","s","t","a","t","i","c",".","c","o","m">>,
    \* "hcaptcha.com"
    <<"h","c","a","p","t","c","h","a",".","c","o","m">>,
    \* "cloudflare.com"
    <<"c","l","o","u","d","f","l","a","r","e",".","c","o","m">>,
    \* "challenges.cloudflare.com"
    <<"c","h","a","l","l","e","n","g","e","s",".","c","l","o","u","d","f","l","a","r","e",".","c","o","m">>,
    \* "yandex.com"
    <<"y","a","n","d","e","x",".","c","o","m">>,
    \* "yandex.ru"
    <<"y","a","n","d","e","x",".","r","u">>,
    \* "smartcaptcha.yandexcloud.net"
    <<"s","m","a","r","t","c","a","p","t","c","h","a",".","y","a","n","d","e","x","c","l","o","u","d",".","n","e","t">>
>>

\* CAPTCHA_DOMAINS.some((domain) => url.includes(domain)): no lower-casing
isCaptchaRequest(url) ==
    \E k \in 1..Len(CAPTCHA_DOMAINS_handler) : includes(url, CAPTCHA_DOMAINS_handler[k])

\* isCaptchaRequest tabulated over the addresses of the model
isCaptchaRequestOf == [u \in ClassifierUrls |-> isCaptchaRequest(u)]

\* the RequestInit a caller hands to fetch; "undefined" marks a missing field
\* and given = FALSE a missing init
RequestInit(given, credentials, mode, accept) ==
    [given |-> given, credentials |-> credentials, mode |-> mode, accept |-> accept]

\* fetch called without an init
NoInit == RequestInit(FALSE, "undefined", "undefined", "undefined")

\* the init the patched fetch hands to originalFetch on the first call
enhancedInit(init, captcha) ==
    IF captcha
    THEN RequestInit(TRUE,
                     IF init.credentials = "undefined" THEN "include" ELSE init.credentials,
                     IF init.mode \in {"undefined", "navigate"} THEN "cors" ELSE init.mode,
                     IF init.accept = "undefined" THEN "*/*" ELSE init.accept)
    ELSE init

\* { credentials: "include" }: the init of the retry
retryInit == RequestInit(TRUE, "include", "undefined", "undefined")

\* the arguments of one originalFetch.call(this, input, init)
FetchArgs(input, init) == [input |-> input, init |-> init]

patchedFetch_RetriesAll(url, init, first, second) ==
    LET captcha == isCaptchaRequestOf[url]
        init1 == enhancedInit(init, captcha)
    IN  IF first = "fulfilled"
        THEN [captcha |-> captcha, calls |-> <<FetchArgs(url, init1)>>,
              result |-> "fulfilled"]
        ELSE [captcha |-> captcha,
              calls |-> <<FetchArgs(url, init1), FetchArgs(url, retryInit)>>,
              result |-> second]

\* window.fetch = function (input, init) {...}: the calls of originalFetch it
\* makes and how the returned promise settles; `first` and `second` are how
\* originalFetch settles
patchedFetch(url, init, first, second) ==
    LET captcha == isCaptchaRequestOf[url]
        init1 == enhancedInit(init, captcha)
    IN  IF first = "fulfilled"
        THEN [captcha |-> captcha, calls |-> <<FetchArgs(url, init1)>>,
              result |-> "fulfilled"]
        ELSE IF captcha /\ init1.given
                /\ (init1.credentials # "undefined" \/ init1.mode # "undefined")
             THEN [captcha |-> captcha,
                   calls |-> <<FetchArgs(url, init1), FetchArgs(url, retryInit)>>,
                   result |-> second]
             ELSE \* throw error
                  [captcha |-> captcha, calls |-> <<FetchArgs(url, init1)>>,
                   result |-> "rejected"]

\* xhr.open = function (method, url, async, username, password) {...}
patchedXhrOpen(url) ==
    LET captcha == isCaptchaRequestOf[url]
    IN  [captcha |-> captcha, withCredentials |-> captcha]

\* the external address-encoding collaborator (sw.encodeURL): an injective,
\* non-identity map on addresses
encodeURL(url) == EncodePrefix \o url

-----------------------------------------------------------------------------
(* The contained document: a fixed universe of nodes.  The static nodes are  *)
(* in the document when it is parsed; the insertable ones are added later.   *)

StaticNodes == {"body", "a1", "s1", "a2", "a3"}

InsertableRoots == {"divP", "a5", "a6", "t1"}

\* the order in which the contained content's script appends them
InsertionOrder == <<"t1", "a5", "divP", "a6">>

NodeIds == StaticNodes \cup InsertableRoots \cup {"a4"}

\* Element.tagName ("#text" for the text node)
tagName(n) ==
    CASE n = "body" -> "BODY"
      [] n = "s1"   -> "SPAN"
      [] n = "divP" -> "DIV"
      [] n = "t1"   -> "#text"
      [] OTHER      -> "A"

\* Node.nodeType: 1 for elements, 3 for text
nodeType(n) == IF n = "t1" THEN 3 ELSE 1

\* Node.parentElement ("none" for null)
parentElement(n) ==
    CASE n = "body" -> "none"
      [] n = "s1"   -> "a1"
      [] n = "a4"   -> "divP"
      [] OTHER      -> "body"

\* the realm whose constructors built the node: the contained document's own
\* scripts and parser ("iframe"), or the embedding page ("parent")
createdIn(n) == IF n \in {"divP", "a4", "a6"} THEN "parent" ELSE "iframe"

\* getAttribute("target") of the node as created ("null" when absent)
initialTarget(n) ==
    CASE n \in {"a1", "a4", "a6"} -> "_blank"
      [] n \in {"a2", "a5"}       -> "_new"
      [] n = "a3"                 -> "_self"
      [] OTHER                    -> "null"

\* getAttribute("href") of the node (Undefined when absent)
hrefAttr(n) ==
    CASE n \in {"a5", "a6"} -> U_Page
      [] n \in {"a1", "a3"} -> U_Relative
      [] n = "a4"           -> U_Captcha
      [] OTHER              -> Undefined

\* HTMLAnchorElement.href: "" without an href attribute, else the attribute
\* resolved against the document's base address
href(n) ==
    IF hrefAttr(n) = Undefined THEN EmptyString
    ELSE IF startsWith(hrefAttr(n), Scheme) THEN hrefAttr(n)
    ELSE BaseOrigin \o hrefAttr(n)

RECURSIVE isAncestor(_, _)
\* a is a proper ancestor of n
isAncestor(a, n) ==
    /\ parentElement(n) # "none"
    /\ (parentElement(n) = a \/ isAncestor(a, parentElement(n)))

\* the node and everything below it
Subtree(n) == {n} \cup {m \in NodeIds : isAncestor(n, m)}

\* the values of target that ask for a new browsing context
NewContextMarkers == {"_blank", "_new"}

-----------------------------------------------------------------------------
(* Navigation Redirector: the onNavigate closure of handleIframeLoad *)

onNavigate_Raw(url) == [enc |-> <<>>, writes |-> <<url>>]

\* (url) => { iframe.src = encodeURL(url); }: one call of the encoder, one
\* write of its result
onNavigate(url) == [enc |-> <<url>>, writes |-> <<encodeURL(url)>>]

RECURSIVE redirectAll(_)
\* the redirects of a sequence of NavigationIntents, in order
redirectAll(navs) ==
    IF navs = <<>> THEN [enc |-> <<>>, writes |-> <<>>]
    ELSE LET h == onNavigate(Head(navs))
             t == redirectAll(Tail(navs))
         IN  [enc |-> h.enc \o t.enc, writes |-> h.writes \o t.writes]

-----------------------------------------------------------------------------
(* The open override *)

\* the realm's real open primitive: it is called with the arguments, and
\* returns a window handle or null (popup blocked)
originalOpenPrimitive(url, target, features, origResult) ==
    [nav |-> <<>>, orig |-> << <<url, target, features>> >>, result |-> origResult]

openOverride_DropsFeatures(url, target, features, forwarded) ==
    IF ~Truthy(url) THEN [nav |-> <<>>, orig |-> <<>>, result |-> "null"]
    ELSE IF isCaptchaUrlOf[url]
         THEN [forwarded EXCEPT !.orig =
                   [i \in 1..Len(forwarded.orig) |-> <<url, target, "undefined">>]]
         ELSE [nav |-> <<url>>, orig |-> <<>>, result |-> "proxy"]

openOverride_AlsoForwards(url, target, features, forwarded) ==
    IF ~Truthy(url) THEN [nav |-> <<>>, orig |-> <<>>, result |-> "null"]
    ELSE IF isCaptchaUrlOf[url] THEN forwarded
         ELSE [nav |-> <<url>>, orig |-> forwarded.orig, result |-> "proxy"]

openOverride_NoUrlForwards(url, target, features, forwarded) ==
    IF ~Truthy(url) THEN forwarded
    ELSE IF isCaptchaUrlOf[url]
         THEN [forwarded EXCEPT !.result =
                   IF forwarded.result \in {"null", "undefined"} THEN "null"
                   ELSE forwarded.result]
         ELSE [nav |-> <<url>>, orig |-> <<>>, result |-> "proxy"]

\* iframeWindow.open = function (url, target, features) {...}; `forwarded` is
\* what originalOpen.call(iframeWindow, url, target, features) does
openOverride(url, target, features, forwarded) ==
    IF ~Truthy(url) THEN [nav |-> <<>>, orig |-> <<>>, result |-> "null"]
    ELSE LET urlString == url
         IN  IF isCaptchaUrlOf[urlString]
             THEN [forwarded EXCEPT !.result =
                       IF forwarded.result \in {"null", "undefined"} THEN "null"
                       ELSE forwarded.result]
             ELSE [nav |-> <<urlString>>, orig |-> <<>>, result |-> "proxy"]

RECURSIVE callOpen(_, _, _, _, _)
\* a call of iframeWindow.open when `depth` overrides are stacked over the
\* primitive: each override captured the open that was current when it ran
callOpen(depth, url, target, features, origResult) ==
    IF depth = 0 THEN originalOpenPrimitive(url, target, features, origResult)
    ELSE openOverride(url, target, features,
                      callOpen(depth - 1, url, target, features, origResult))

\* the stand-in's get trap: get() { return null; }
ProxyGet(store, prop) == "null"

\* the stand-in's set trap: set() { return true; } (the target is not written)
ProxySet(store, prop, value) == [store |-> store, accepted |-> TRUE]

-----------------------------------------------------------------------------
(* Link interception: the capturing click listener *)

RECURSIVE closestAnchor(_)
\* while (target && target.tagName !== "A") target = target.parentElement
closestAnchor(n) ==
    IF n = "none" THEN "none"
    ELSE IF tagName(n) = "A" THEN n
    ELSE closestAnchor(parentElement(n))

\* one run of the listener for a click whose event.target is n
clickListener_AnyAnchor(n, attrs) ==
    LET anchor == closestAnchor(n)
    IN  IF anchor # "none"
        THEN [prevented |-> TRUE, stopped |-> TRUE,
              nav |-> IF href(anchor) # EmptyString THEN <<href(anchor)>> ELSE <<>>]
        ELSE [prevented |-> FALSE, stopped |-> FALSE, nav |-> <<>>]

clickListener_NoStop(n, attrs) ==
    LET anchor == closestAnchor(n)
    IN  IF anchor # "none" /\ attrs[anchor] \in NewContextMarkers
        THEN [prevented |-> TRUE, stopped |-> FALSE,
              nav |-> IF href(anchor) # EmptyString THEN <<href(anchor)>> ELSE <<>>]
        ELSE [prevented |-> FALSE, stopped |-> FALSE, nav |-> <<>>]

\* the listener of doc.addEventListener("click", (event) => {...}, true)
clickListener(n, attrs) ==
    LET anchor == closestAnchor(n)
    IN  IF anchor # "none" /\ attrs[anchor] \in NewContextMarkers
        THEN [prevented |-> TRUE, stopped |-> TRUE,
              nav |-> IF href(anchor) # EmptyString THEN <<href(anchor)>> ELSE <<>>]
        ELSE [prevented |-> FALSE, stopped |-> FALSE, nav |-> <<>>]

RECURSIVE repeat(_, _)
\* s concatenated k times
repeat(s, k) == IF k = 0 THEN <<>> ELSE s \o repeat(s, k - 1)

\* the third argument of doc.addEventListener("click", ..., true)
useCapture == TRUE

\* the handlers the content itself has on the clicked element and its
\* ancestors below the document, all for the bubble phase
contentHandlers == <<"bubble:content">>

\* a click dispatched along document -> ... -> target -> ... -> document:
\* the document's capturing listeners run on the way down, every one of them
\* (stopPropagation does not stop the other listeners of the same target),
\* then the content's handlers unless propagation was stopped, then the
\* document's bubble-phase listeners unless it was stopped
dispatchClick(n, attrs, listeners) ==
    LET one == clickListener(n, attrs)
        own == repeat(<<"interceptor">>, listeners)
    IN  [prevented |-> listeners > 0 /\ one.prevented,
         stopped   |-> listeners > 0 /\ one.stopped,
         nav       |-> repeat(one.nav, listeners),
         ran       |-> IF useCapture
                       THEN IF listeners > 0 /\ one.stopped
                            THEN own ELSE own \o contentHandlers
                       ELSE contentHandlers \o own]

-----------------------------------------------------------------------------
(* Dynamic content: the MutationObserver callback.  The callback is code of  *)
(* the embedding page, so HTMLAnchorElement and HTMLElement name the         *)
(* embedding page's constructors: instanceof holds only for a node whose     *)
(* prototype chain comes from that realm.                                    *)

\* node instanceof HTMLAnchorElement
instanceofHTMLAnchorElement(n) == tagName(n) = "A" /\ createdIn(n) = "parent"

\* node instanceof HTMLElement
instanceofHTMLElement(n) == nodeType(n) = 1 /\ createdIn(n) = "parent"

\* node.querySelectorAll('a[target="_blank"], a[target="_new"]')
querySelectorAll(n, attrs) ==
    {m \in Subtree(n) \ {n} : tagName(m) = "A" /\ attrs[m] \in NewContextMarkers}

\* the nodes whose target attribute the callback removes for one added node
stripped(n, attrs) ==
    IF nodeType(n) # 1 THEN {}
    ELSE IF instanceofHTMLAnchorElement(n)
         THEN IF attrs[n] \in NewContextMarkers THEN {n} ELSE {}
    ELSE IF instanceofHTMLElement(n) THEN querySelectorAll(n, attrs)
    ELSE {}

\* mutations.forEach(mutation => mutation.addedNodes.forEach(...)): the
\* attributes after one callback over the added nodes of the batch
observerCallback(added, attrs) ==
    LET gone == UNION {stripped(n, attrs) : n \in added}
    IN  [m \in NodeIds |-> IF m \in gone THEN "null" ELSE attrs[m]]

-----------------------------------------------------------------------------
(* Installation *)

\* a realm nothing has been installed in
FreshRealm(origin) ==
    [origin |-> origin, readyState |-> "loading", loadPending |-> FALSE,
     pmWrappers |-> 0, openWrappers |-> 0, readyListeners |-> 0,
     clickListeners |-> 0, observers |-> 0, runs |-> 0, direct |-> 0,
     standIn |-> FALSE,
     \* doc.body and doc.documentElement exist; what the observers observe
     hasBody |-> TRUE, hasRoot |-> TRUE, observed |-> <<>>]

\* fixPostMessage: the read of postMessage is allowed on a cross-origin
\* window; the assignment raises there and is caught inside
fixPostMessage(r) ==
    IF r.origin = "cross" THEN r ELSE [r EXCEPT !.pmWrappers = @ + 1]

\* observer.observe(observeTarget, {childList: true, subtree: true})
Observation(target) == [target |-> target, childList |-> TRUE, subtree |-> TRUE]

interceptTargetBlank_BodyOnly(r) ==
    IF r.hasBody
    THEN [r EXCEPT !.clickListeners = @ + 1, !.observers = @ + 1,
                   !.observed = Append(@, Observation("body"))]
    ELSE [r EXCEPT !.clickListeners = @ + 1]

\* interceptTargetBlank: one capturing click listener on the document, and
\* one observer on doc.body || doc.documentElement when there is either
interceptTargetBlank(r) ==
    LET observeTarget == IF r.hasBody THEN "body"
                         ELSE IF r.hasRoot THEN "documentElement"
                         ELSE "null"
    IN  IF observeTarget # "null"
        THEN [r EXCEPT !.clickListeners = @ + 1, !.observers = @ + 1,
                       !.observed = Append(@, Observation(observeTarget))]
        ELSE \* console.warn("No valid target for MutationObserver")
             [r EXCEPT !.clickListeners = @ + 1]

RECURSIVE runReadyListeners(_, _)
\* the k interceptTargetBlank listeners of DOMContentLoaded, run in turn
runReadyListeners(r, k) ==
    IF k = 0 THEN r ELSE runReadyListeners(interceptTargetBlank(r), k - 1)

\* what fixPostMessage logs as a step of the installation: on a cross-origin
\* window its own catch takes the failure of the assignment
fixPostMessageStep(r) ==
    IF r.origin = "cross" THEN "fixPostMessage:caught" ELSE "fixPostMessage"

injectTry_OpenFirst(r) ==
    IF r.origin = "cross"
    THEN [realm |-> r, threw |-> TRUE, steps |-> <<>>]
    ELSE LET r2 == fixPostMessage([r EXCEPT !.openWrappers = @ + 1])
         IN  [realm |-> IF r2.readyState = "loading"
                        THEN [r2 EXCEPT !.readyListeners = @ + 1, !.runs = @ + 1]
                        ELSE [interceptTargetBlank(r2) EXCEPT !.runs = @ + 1],
              threw |-> FALSE,
              steps |-> <<"open", fixPostMessageStep(r),
                          IF r2.readyState = "loading"
                          THEN "defer" ELSE "interceptTargetBlank">>]

\* the try block of injectIframeInterceptor: threw is TRUE when a
\* realm-access violation left the block; runs counts the runs that reached
\* the end of the block on this realm; steps is what the block did, in order
injectTry(r) ==
    LET r1 == fixPostMessage(r)
    IN  IF r1.origin = "cross"
        THEN \* const originalOpen = iframeWindow.open raises
             [realm |-> r1, threw |-> TRUE, steps |-> <<fixPostMessageStep(r)>>]
        ELSE LET r2 == [r1 EXCEPT !.openWrappers = @ + 1]
             IN  [realm |-> IF r2.readyState = "loading"
                            THEN [r2 EXCEPT !.readyListeners = @ + 1, !.runs = @ + 1]
                            ELSE [interceptTargetBlank(r2) EXCEPT !.runs = @ + 1],
                  threw |-> FALSE,
                  steps |-> <<fixPostMessageStep(r), "open",
                              IF r2.readyState = "loading"
                              THEN "defer" ELSE "interceptTargetBlank">>]

injectIframeInterceptor_NoCatch(r) ==
    IF r.origin = "none"
    THEN [realm |-> r, raised |-> FALSE, success |-> 0, steps |-> <<>>]
    ELSE LET t == injectTry(r)
         IN  [realm |-> t.realm, raised |-> t.threw,
              success |-> IF t.threw THEN 0 ELSE 1,
              steps |-> IF t.threw THEN t.steps ELSE t.steps \o <<"success">>]

\* injectIframeInterceptor(iframeWindow, onNavigate): a null window returns at
\* once; whatever the try block raises is caught and logged
injectIframeInterceptor(r) ==
    IF r.origin = "none"
    THEN [realm |-> r, raised |-> FALSE, success |-> 0, steps |-> <<>>]
    ELSE LET t == injectTry(r)
         IN  [realm |-> t.realm, raised |-> FALSE,
              success |-> IF t.threw THEN 0 ELSE 1,
              \* console.log("Successfully injected interceptor") ends the block
              steps |-> IF t.threw THEN t.steps ELSE t.steps \o <<"success">>]

\* handleIframeLoad: returns when contentWindow is null, else installs
handleIframeLoad(r) ==
    IF r.origin = "none"
    THEN [realm |-> r, raised |-> FALSE, success |-> 0, installs |-> 0, steps |-> <<>>]
    ELSE LET i == injectIframeInterceptor(r)
         IN  [realm |-> i.realm, raised |-> i.raised, success |-> i.success,
              installs |-> 1, steps |-> i.steps]

RECURSIVE fireLoadListeners(_, _)
\* the load event of the iframe element: the k attached handleIframeLoad
\* listeners run one after the other (a raising listener does not stop the
\* others)
fireLoadListeners(r, k) ==
    IF k = 0
    THEN [realm |-> r, raised |-> FALSE, success |-> 0, installs |-> 0, steps |-> <<>>]
    ELSE LET h == handleIframeLoad(r)
             t == fireLoadListeners(h.realm, k - 1)
         IN  [realm |-> t.realm, raised |-> h.raised \/ t.raised,
              success |-> h.success + t.success, installs |-> h.installs + t.installs,
              steps |-> h.steps \o t.steps]

\* the tail of setupIframeInterceptor, after the listener is attached:
\* if (iframe.contentWindow && iframe.contentWindow.document.readyState ===
\* "complete") handleIframeLoad(); the read of document raises on a
\* cross-origin window and nothing catches it
setupImmediate(r) ==
    IF r.origin = "none"
    THEN [realm |-> r, raised |-> FALSE, success |-> 0, installs |-> 0, steps |-> <<>>]
    ELSE IF r.origin = "cross"
    THEN [realm |-> r, raised |-> TRUE, success |-> 0, installs |-> 0, steps |-> <<>>]
    ELSE IF r.readyState = "complete" THEN handleIframeLoad(r)
    ELSE [realm |-> r, raised |-> FALSE, success |-> 0, installs |-> 0, steps |-> <<>>]

-----------------------------------------------------------------------------
(* Transferable Sanitizer: the postMessage wrapper of fixPostMessage.  The   *)
(* wrapper is code of the embedding page; the values it is handed (transfer  *)
(* items, thrown errors) come from the realm of whoever built them.          *)

\* a transfer-list entry: its type, and the realm whose constructor built it
Item(type, itemRealm) == [type |-> type, realm |-> itemRealm]

\* item instanceof ArrayBuffer, item instanceof MessagePort: the constructors
\* named are those of the wrapper's own realm
instanceofIn(item, type) == item.type = type /\ item.realm = "parent"

\* the predicate of filterValidTransferables (the capability-tested bitmap,
\* canvas and stream types do not occur in this model)
isValidTransferable(item) ==
    \/ instanceofIn(item, "ArrayBuffer")
    \/ instanceofIn(item, "MessagePort")

RECURSIVE filter(_)
\* Array.prototype.filter with isValidTransferable: order is kept
filter(transfer) ==
    IF transfer = <<>> THEN <<>>
    ELSE IF isValidTransferable(Head(transfer))
         THEN <<Head(transfer)>> \o filter(Tail(transfer))
         ELSE filter(Tail(transfer))

\* filterValidTransferables
filterValidTransferables(transfer) == filter(transfer)

\* the arguments of one postMessage call: convention "legacy" is
\* (message, targetOrigin, transfer), "options" is (message, {targetOrigin,
\* transfer}); targetOrigin "undefined" and hasTransfer FALSE mean absent
Call(message, convention, targetOrigin, hasTransfer, transfer) ==
    [message |-> message, convention |-> convention, targetOrigin |-> targetOrigin,
     hasTransfer |-> hasTransfer, transfer |-> transfer]

NoCall == Call("none", "none", "undefined", FALSE, <<>>)

forwardArgs_OptionsUnfiltered(call) ==
    IF call.convention = "options" THEN call
    ELSE [call EXCEPT !.targetOrigin = IF @ = "undefined" THEN "*" ELSE @,
                      !.transfer =
                          IF call.hasTransfer THEN filterValidTransferables(@) ELSE <<>>]

\* the caller's own arguments after the wrapper has run: the options object
\* is spread into a new object before transfer is replaced or deleted, and
\* filter builds a new array, so what the caller holds is as it was
callerArgsAfter(call) == call

\* the try block of the wrapper: what it hands to originalPostMessage
forwardArgs(call) ==
    IF call.convention = "options"
    THEN \* const options = { ...targetOriginOrOptions }; options.transfer filtered
         [call EXCEPT !.transfer =
             IF call.hasTransfer THEN filterValidTransferables(@) ELSE @]
    ELSE \* targetOrigin string or "*"; validTransfer filtered or undefined
         [call EXCEPT !.targetOrigin = IF @ = "undefined" THEN "*" ELSE @,
                      !.transfer =
                          IF call.hasTransfer THEN filterValidTransferables(@) ELSE <<>>]

\* the retry of the catch block: the same message, no transfer list
retryArgs(call) ==
    IF call.convention = "options"
    THEN \* delete fallbackOptions.transfer
         [call EXCEPT !.hasTransfer = FALSE, !.transfer = <<>>]
    ELSE [call EXCEPT !.targetOrigin = IF @ = "undefined" THEN "*" ELSE @,
                      !.hasTransfer = FALSE, !.transfer = <<>>]

\* what an invocation of a message-send function did: the invocations of the
\* underlying primitive it led to, their outcomes, and its own outcome
Ok == [kind |-> "ok", name |-> "none", realm |-> "none"]

\* a thrown error: its name, and the realm whose DOMException it is
Error(name, errorRealm) == [kind |-> "error", name |-> name, realm |-> errorRealm]

\* error instanceof DOMException && error.name === "DataCloneError"
isDataCloneError(e) ==
    e.kind = "error" /\ e.realm = "parent" /\ e.name = "DataCloneError"

\* the realm's own postMessage: it fails or not according to whether a
\* transfer list reaches it
originalPostMessage(call, withTransfer, withoutTransfer) ==
    LET out == IF call.hasTransfer /\ call.transfer # <<>>
               THEN withTransfer ELSE withoutTransfer
    IN  [calls |-> <<call>>, outcomes |-> <<out>>, outcome |-> out]

postMessageWrapper_SwallowsOther(first, retry) ==
    IF first.outcome.kind = "ok" THEN first
    ELSE IF isDataCloneError(first.outcome)
         THEN [calls |-> first.calls \o retry.calls,
               outcomes |-> first.outcomes \o retry.outcomes,
               outcome |-> retry.outcome]
         ELSE [first EXCEPT !.outcome = Ok]

\* the wrapper: `first` is what originalPostMessage did with forwardArgs,
\* `retry` what it does with retryArgs (made only after a DataCloneError)
postMessageWrapper(first, retry) ==
    IF first.outcome.kind = "ok" THEN first
    ELSE IF isDataCloneError(first.outcome)
         THEN [calls |-> first.calls \o retry.calls,
               outcomes |-> first.outcomes \o retry.outcomes,
               outcome |-> retry.outcome]
         ELSE \* throw error
              first

RECURSIVE callPostMessage(_, _, _, _)
\* a call of targetWindow.postMessage when `depth` wrappers are stacked over
\* the primitive: each wrapper bound the postMessage that was current when
\* fixPostMessage ran
callPostMessage(depth, call, withTransfer, withoutTransfer) ==
    IF depth = 0 THEN originalPostMessage(call, withTransfer, withoutTransfer)
    ELSE postMessageWrapper(
             callPostMessage(depth - 1, forwardArgs(call), withTransfer, withoutTransfer),
             callPostMessage(depth - 1, retryArgs(call), withTransfer, withoutTransfer))

-----------------------------------------------------------------------------
(* The page-level postMessage patch of captcha-handler.ts                    *)
(* (fixMessagePortCloning): one wrapper over window.postMessage of the page  *)

\* item instanceof MessagePort || item?.constructor?.name === "MessagePort":
\* the name test holds for a port of any realm
isMessagePort(item) == item.type = "MessagePort"

\* transfer.some(isMessagePort)
hasMessagePort(transfer) == \E i \in 1..Len(transfer) : isMessagePort(transfer[i])

\* collectPorts(message): the ports found in the message; "m" is a string,
\* "object" an object holding no port, "object+port" one holding a port
collectPorts(message) ==
    IF message = "object+port" THEN <<Item("MessagePort", "parent")>> ELSE <<>>

\* the try block of the page-level wrapper: what it hands to
\* originalPostMessage
pageForwardArgs(call) ==
    IF call.convention = "options" /\ call.targetOrigin # "undefined"
    THEN \* "targetOrigin" in args[0]: originalPostMessage(message, options)
         call
    ELSE LET targetOrigin == IF call.convention = "legacy" /\ call.targetOrigin # "undefined"
                             THEN call.targetOrigin ELSE "*"
             \* let transfer = args[1]
             given == call.convention = "legacy" /\ call.hasTransfer
             transfer == IF given THEN call.transfer ELSE <<>>
         IN  IF given /\ hasMessagePort(transfer)
             THEN Call(call.message, "legacy", targetOrigin, TRUE, transfer)
             ELSE IF collectPorts(call.message) # <<>>
             THEN Call(call.message, "legacy", targetOrigin, TRUE, collectPorts(call.message))
             ELSE IF given
             THEN Call(call.message, "legacy", targetOrigin, TRUE, transfer)
             ELSE Call(call.message, "legacy", targetOrigin, FALSE, <<>>)

\* the fallback of the catch block: typeof args[0] === "string" ? args[0] :
\* "*", and no transfer
pageRetryArgs(call) ==
    Call(call.message, "legacy",
         IF call.convention = "legacy" /\ call.targetOrigin # "undefined"
         THEN call.targetOrigin ELSE "*",
         FALSE, <<>>)

\* the page-level wrapper: any failure of the first invocation leads to the
\* fallback, whose failure is thrown
pagePostMessage(call, withTransfer, withoutTransfer) ==
    LET first == originalPostMessage(pageForwardArgs(call), withTransfer, withoutTransfer)
        retry == originalPostMessage(pageRetryArgs(call), withTransfer, withoutTransfer)
    IN  IF first.outcome.kind = "ok" THEN first
        ELSE [calls |-> first.calls \o retry.calls,
              outcomes |-> first.outcomes \o retry.outcomes,
              outcome |-> retry.outcome]

-----------------------------------------------------------------------------
(* The service worker: its fetch listener *)

RECURSIVE byteLength(_)
\* the size in bytes of a body held as a sequence of tags and text runs
byteLength(body) ==
    IF body = <<>> THEN 0 ELSE Len(Head(body)) + byteLength(Tail(body))

\* a Response: status, declared content type, content-length header (a
\* sequence of at most one number: empty when the header is absent), and the
\* body as a sequence of tags and text runs (hasBody FALSE is a null body)
Response(status, contentType, hasBody, body) ==
    [status |-> status, contentType |-> contentType,
     contentLength |-> IF hasBody THEN <<byteLength(body)>> ELSE <<>>,
     hasBody |-> hasBody, body |-> body]

NoResponse == Response("none", "none", FALSE, <<>>)

\* new Response("Proxy request failed", {status: 500, statusText: "Internal
\* Server Error"}): no content-length header is given
ProxyRequestFailed ==
    [Response("500", "text/plain", TRUE, <<"Proxy request failed">>)
        EXCEPT !.contentLength = <<>>]

\* a fetch event's request: whether its url starts with location.origin +
\* __uv$config.prefix, and whether sj.route(event) holds of it
Request(uvPrefixed, sjRoutes) == [uvPrefixed |-> uvPrefixed, sjRoutes |-> sjRoutes]

NoRequest == Request(FALSE, FALSE)

route_ScramjetFirst(request) ==
    IF request.sjRoutes THEN "sj.fetch"
    ELSE IF request.uvPrefixed THEN "uv.fetch"
    ELSE "fetch"

\* the handler the try block hands the event to
route(request) ==
    IF request.uvPrefixed THEN "uv.fetch"
    ELSE IF request.sjRoutes THEN "sj.fetch"
    ELSE "fetch"

fetchListener_Rewrites(request, configOk, firstOk, retryOk, upstream, direct) ==
    IF configOk /\ firstOk
    THEN [tried |-> <<route(request)>>, retries |-> <<>>, settled |-> "fulfilled",
          response |-> [upstream EXCEPT !.body = <<"<!-- sw -->">> \o @,
                                        !.hasBody = TRUE]]
    ELSE LET tried == IF configOk THEN <<route(request)>> ELSE <<>>
         IN  [tried |-> tried \o <<"fetch">>, retries |-> <<"fetch">>,
              settled |-> "fulfilled",
              response |-> IF retryOk THEN direct ELSE ProxyRequestFailed]

fetchListener_NoInnerCatch(request, configOk, firstOk, retryOk, upstream, direct) ==
    IF configOk /\ firstOk
    THEN [tried |-> <<route(request)>>, retries |-> <<>>, settled |-> "fulfilled",
          response |-> upstream]
    ELSE LET tried == IF configOk THEN <<route(request)>> ELSE <<>>
         IN  IF retryOk
             THEN [tried |-> tried \o <<"fetch">>, retries |-> <<"fetch">>,
                   settled |-> "fulfilled", response |-> direct]
             ELSE [tried |-> tried \o <<"fetch">>, retries |-> <<"fetch">>,
                   settled |-> "rejected", response |-> NoResponse]

fetchListener_RetriesRouted(request, configOk, firstOk, retryOk, upstream, direct) ==
    IF configOk /\ firstOk
    THEN [tried |-> <<route(request)>>, retries |-> <<>>, settled |-> "fulfilled",
          response |-> upstream]
    ELSE LET tried == IF configOk THEN <<route(request)>> ELSE <<>>
         IN  [tried |-> tried \o <<route(request)>>, retries |-> <<route(request)>>,
              settled |-> "fulfilled",
              response |-> IF retryOk THEN direct ELSE ProxyRequestFailed]

\* the async function given to event.respondWith: configOk, firstOk and
\* retryOk say whether sj.loadConfig(), the routed handler and the fetch of
\* the catch block succeed; upstream and direct are what the routed handler
\* and that fetch resolve to.  tried is every handler called, in order,
\* retries those called from the catch block, settled how the promise ends
fetchListener(request, configOk, firstOk, retryOk, upstream, direct) ==
    IF configOk /\ firstOk
    THEN [tried |-> <<route(request)>>, retries |-> <<>>, settled |-> "fulfilled",
          response |-> upstream]
    ELSE LET tried == IF configOk THEN <<route(request)>> ELSE <<>>
         IN  IF retryOk
             THEN [tried |-> tried \o <<"fetch">>, retries |-> <<"fetch">>,
                   settled |-> "fulfilled", response |-> direct]
             ELSE \* catch (retryError): the 500 response is returned
                  [tried |-> tried \o <<"fetch">>, retries |-> <<"fetch">>,
                   settled |-> "fulfilled", response |-> ProxyRequestFailed]

-----------------------------------------------------------------------------
(* State *)

\* what a handler that did nothing observable leaves in `last`
Quiet(op) ==
    [op |-> op, url |-> Undefined, target |-> "undefined", features |-> "undefined",
     node |-> "none", prop |-> "none", added |-> {},
     nav |-> <<>>, enc |-> <<>>, writes |-> <<>>, orig |-> <<>>,
     result |-> "none", prevented |-> FALSE, stopped |-> FALSE,
     raised |-> FALSE, installs |-> 0, success |-> 0, steps |-> <<>>, ran |-> <<>>,
     isCaptchaRequest |-> "none", fetchCalls |-> <<>>,
     fetchInit |-> NoInit, fetchFirst |-> "none", fetchSecond |-> "none",
     request |-> NoRequest, configOk |-> TRUE, firstOk |-> TRUE, retryOk |-> TRUE,
     tried |-> <<>>, retries |-> <<>>, settled |-> "none",
     upstream |-> NoResponse, response |-> NoResponse,
     pmCall |-> NoCall, pmCallAfter |-> NoCall, pmCalls |-> <<>>, pmOutcomes |-> <<>>, outcome |-> Ok]

InitialAttrs == [m \in NodeIds |-> initialTarget(m)]

\* iframe.src after the redirects of this handler
srcAfter(writes) == IF writes = <<>> THEN iframeSrc ELSE writes[Len(writes)]

Init ==
    /\ iframeSrc = EmptyString
    /\ loadListeners = 0
    /\ realm = FreshRealm("none")
    /\ present = StaticNodes
    /\ targetAttr = InitialAttrs
    /\ pending = {}
    /\ standInStore = {}
    /\ last = Quiet("none")

-----------------------------------------------------------------------------
(* Actions of the embedding page *)

\* setupIframeInterceptor(iframe, encodeURL)
Setup ==
    /\ loadListeners < MaxBinds
    /\ loadListeners' = loadListeners + 1
    /\ LET s == setupImmediate(realm)
       IN  /\ realm' = s.realm
           /\ last' = [Quiet("setup") EXCEPT !.raised = s.raised,
                           !.installs = s.installs, !.success = s.success,
                           !.steps = s.steps]
    /\ UNCHANGED <<iframeSrc, present, targetAttr, pending, standInStore>>

\* a direct call injectIframeInterceptor(iframe.contentWindow, onNavigate)
Inject ==
    /\ realm.direct < MaxDirect
    /\ LET i == injectIframeInterceptor(realm)
       IN  /\ realm' = [i.realm EXCEPT !.direct = @ + 1]
           /\ last' = [Quiet("inject") EXCEPT !.raised = i.raised,
                           !.installs = 1, !.success = i.success,
                           !.steps = i.steps]
    /\ UNCHANGED <<iframeSrc, loadListeners, present, targetAttr, pending, standInStore>>

-----------------------------------------------------------------------------
(* The life of the contained document *)

\* the iframe starts loading a new document: a new realm, same-origin or not
Navigate(origin) ==
    /\ realm' = FreshRealm(origin)
    /\ present' = StaticNodes
    /\ targetAttr' = InitialAttrs
    /\ pending' = {}
    /\ standInStore' = {}
    /\ last' = Quiet("navigate")
    /\ UNCHANGED <<iframeSrc, loadListeners>>

\* the document's ready signal: the deferred interceptTargetBlank listeners run
DOMContentLoaded ==
    /\ realm.origin # "none"
    /\ realm.readyState = "loading"
    /\ realm' = [runReadyListeners(realm, realm.readyListeners)
                     EXCEPT !.readyState = "interactive", !.readyListeners = 0]
    /\ last' = Quiet("ready")
    /\ UNCHANGED <<iframeSrc, loadListeners, present, targetAttr, pending, standInStore>>

\* the document finishes loading; the element's load event is now due
LoadComplete ==
    /\ realm.origin # "none"
    /\ realm.readyState = "interactive"
    /\ realm' = [realm EXCEPT !.readyState = "complete", !.loadPending = TRUE]
    /\ last' = Quiet("complete")
    /\ UNCHANGED <<iframeSrc, loadListeners, present, targetAttr, pending, standInStore>>

\* the load event of the iframe element
FireLoad ==
    /\ realm.loadPending
    /\ LET f == fireLoadListeners([realm EXCEPT !.loadPending = FALSE], loadListeners)
       IN  /\ realm' = f.realm
           /\ last' = [Quiet("load") EXCEPT !.raised = f.raised,
                           !.installs = f.installs, !.success = f.success,
                           !.steps = f.steps]
    /\ UNCHANGED <<iframeSrc, loadListeners, present, targetAttr, pending, standInStore>>

-----------------------------------------------------------------------------
(* Actions of the contained content *)

\* window.open(url, target, features) called inside the realm
OpenCall(url, target, features, origResult) ==
    /\ realm.origin # "none"
    /\ LET e == callOpen(realm.openWrappers, url, target, features, origResult)
           r == redirectAll(e.nav)
       IN  /\ last' = [Quiet("open") EXCEPT !.url = url, !.target = target,
                           !.features = features, !.nav = e.nav, !.orig = e.orig,
                           !.result = e.result, !.enc = r.enc, !.writes = r.writes]
           /\ iframeSrc' = srcAfter(r.writes)
           /\ realm' = [realm EXCEPT !.standIn = @ \/ e.result = "proxy"]
           /\ standInStore' = IF e.result = "proxy" THEN {} ELSE standInStore
    /\ UNCHANGED <<loadListeners, present, targetAttr, pending>>

\* the caller reads a property of the stand-in it was handed
StandInGet(prop) ==
    /\ realm.standIn
    /\ last' = [Quiet("get") EXCEPT !.prop = prop, !.result = ProxyGet(standInStore, prop)]
    /\ UNCHANGED <<iframeSrc, loadListeners, realm, present, targetAttr, pending, standInStore>>

\* the caller writes a property of the stand-in it was handed
StandInSet(prop, value) ==
    /\ realm.standIn
    /\ LET s == ProxySet(standInStore, prop, value)
       IN  /\ standInStore' = s.store
           /\ last' = [Quiet("set") EXCEPT !.prop = prop,
                           !.result = IF s.accepted THEN "true" ELSE "false"]
    /\ UNCHANGED <<iframeSrc, loadListeners, realm, present, targetAttr, pending>>

\* a click whose event.target is the element n
Click(n) ==
    /\ realm.origin # "none"
    /\ n \in present
    /\ nodeType(n) = 1
    /\ LET c == dispatchClick(n, targetAttr, realm.clickListeners)
           r == redirectAll(c.nav)
       IN  /\ last' = [Quiet("click") EXCEPT !.node = n, !.nav = c.nav,
                           !.prevented = c.prevented, !.stopped = c.stopped, !.ran = c.ran,
                           !.enc = r.enc, !.writes = r.writes]
           /\ iframeSrc' = srcAfter(r.writes)
    /\ UNCHANGED <<loadListeners, realm, present, targetAttr, pending, standInStore>>

\* the subtree rooted at n is appended to the body; an attached observer
\* queues a record naming n as the added node
Insert(n) ==
    /\ realm.origin # "none"
    /\ n \in InsertableRoots \ present
    /\ \E i \in 1..Len(InsertionOrder) :
          /\ InsertionOrder[i] = n
          /\ \A j \in 1..(i - 1) : InsertionOrder[j] \in present
    /\ present' = present \cup Subtree(n)
    /\ pending' = IF realm.observers > 0 THEN pending \cup {n} ELSE pending
    /\ last' = [Quiet("insert") EXCEPT !.node = n]
    /\ UNCHANGED <<iframeSrc, loadListeners, realm, targetAttr, standInStore>>

\* the queued records are delivered: every observer's callback runs over them
ObserverCallback ==
    /\ pending # {}
    /\ targetAttr' = observerCallback(pending, targetAttr)
    /\ pending' = {}
    /\ last' = [Quiet("observe") EXCEPT !.added = pending]
    /\ UNCHANGED <<iframeSrc, loadListeners, realm, present, standInStore>>

\* targetWindow.postMessage(...) called on the realm's window; the two
\* outcomes are what the realm's primitive does with and without a transfer list
PostMessageCall(call, withTransfer, withoutTransfer) ==
    /\ realm.origin # "none"
    /\ LET p == callPostMessage(realm.pmWrappers, call, withTransfer, withoutTransfer)
       IN  last' = [Quiet("postMessage") EXCEPT !.pmCall = call,
                        !.pmCallAfter = IF realm.pmWrappers > 0
                                        THEN callerArgsAfter(call) ELSE call,
                        !.pmCalls = p.calls,
                        !.pmOutcomes = p.outcomes, !.outcome = p.outcome]
    /\ UNCHANGED <<iframeSrc, loadListeners, realm, present, targetAttr, pending, standInStore>>

-----------------------------------------------------------------------------
(* Inputs *)

\* the (url, target, features) argument lists of the open calls
OpenArgs ==
    { <<Undefined, "undefined", "undefined">>,
      <<EmptyString, "_blank", "undefined">>,
      <<U_Page, "_blank", "popup">>,
      <<U_Page, "undefined", "undefined">>,
      <<U_Captcha, "_blank", "popup">>,
      <<U_Captcha, "undefined", "undefined">> }

OpenResults == {"window", "null"}

StandInProps == {"closed", "location"}

Next ==
    \/ Setup
    \/ Inject
    \/ \E origin \in {"same", "cross"} : Navigate(origin)
    \/ DOMContentLoaded
    \/ LoadComplete
    \/ FireLoad
    \/ \E args \in OpenArgs, origResult \in OpenResults :
          OpenCall(args[1], args[2], args[3], origResult)
    \/ \E prop \in StandInProps : StandInGet(prop)
    \/ \E prop \in StandInProps : StandInSet(prop, "x")
    \/ \E n \in NodeIds : Click(n)
    \/ \E n \in InsertableRoots : Insert(n)
    \/ ObserverCallback

Spec == Init /\ [][Next]_vars

\* the transfer lists of the postMessage calls: buffers and ports built by the
\* embedding page or by the content, mixed with plain objects
TransferLists ==
    { <<Item("ArrayBuffer", "parent"), Item("Object", "parent")>>,
      <<Item("Object", "iframe"), Item("MessagePort", "parent"), Item("ArrayBuffer", "parent")>>,
      <<Item("ArrayBuffer", "iframe"), Item("Object", "iframe")>>,
      <<Item("MessagePort", "iframe")>>,
      <<Item("Object", "parent")>> }

PostMessageCalls ==
    {Call("m", "legacy", "https://x.test", TRUE, t) : t \in TransferLists}
    \cup {Call("m", "options", "https://x.test", TRUE, t) : t \in TransferLists}
    \cup { Call("m", "legacy", "*", FALSE, <<>>),
           Call("m", "legacy", "undefined", FALSE, <<>>),
           Call("m", "options", "undefined", FALSE, <<>>),
           Call("m", "options", "https://x.test", FALSE, <<>>) }

\* what the primitive can do with one invocation
PrimitiveOutcomes ==
    { Ok,
      Error("DataCloneError", "parent"),
      Error("DataCloneError", "iframe"),
      Error("SyntaxError", "parent") }

NextPostMessage ==
    \/ Setup
    \/ Inject
    \/ \E origin \in {"same", "cross"} : Navigate(origin)
    \/ DOMContentLoaded
    \/ LoadComplete
    \/ FireLoad
    \/ \E call \in PostMessageCalls, o1 \in PrimitiveOutcomes, o2 \in PrimitiveOutcomes :
          PostMessageCall(call, o1, o2)

\* the installation actions and the message sends of the content
SpecPostMessage == Init /\ [][NextPostMessage]_vars

-----------------------------------------------------------------------------
(* Installation on documents of every shape *)

\* the iframe starts loading a document that has a body, or a root element
\* and no body (an XML or SVG document), or no element at all
NavigateDocument(origin, hasBody, hasRoot) ==
    /\ realm' = [FreshRealm(origin) EXCEPT !.hasBody = hasBody, !.hasRoot = hasRoot]
    /\ present' = IF hasBody THEN StaticNodes ELSE {}
    /\ targetAttr' = InitialAttrs
    /\ pending' = {}
    /\ standInStore' = {}
    /\ last' = Quiet("navigate")
    /\ UNCHANGED <<iframeSrc, loadListeners>>

\* (hasBody, hasRoot) of the documents
DocumentShapes == {<<TRUE, TRUE>>, <<FALSE, TRUE>>, <<FALSE, FALSE>>}

NextObserver ==
    \/ Setup
    \/ Inject
    \/ \E origin \in {"same", "cross"}, shape \in DocumentShapes :
          NavigateDocument(origin, shape[1], shape[2])
    \/ DOMContentLoaded
    \/ LoadComplete
    \/ FireLoad

\* the installation actions over documents with and without a body
SpecObserver == Init /\ [][NextObserver]_vars

-----------------------------------------------------------------------------
(* The classifiers, asked directly *)

\* "true" / "false", as the log of a handler records a decision
Decision(b) == IF b THEN "true" ELSE "false"

\* isCaptchaUrl(url), called
Classify(url) ==
    /\ last' = [Quiet("classify") EXCEPT !.url = url,
                    !.result = Decision(isCaptchaUrlOf[url])]
    /\ UNCHANGED <<iframeSrc, loadListeners, realm, present, targetAttr, pending, standInStore>>

\* the patched window.fetch(url, init), called
Fetch(url, init, first, second) ==
    /\ LET f == patchedFetch(url, init, first, second)
       IN  last' = [Quiet("fetch") EXCEPT !.url = url,
                        !.isCaptchaRequest = Decision(f.captcha),
                        !.fetchInit = init, !.fetchFirst = first,
                        !.fetchSecond = second,
                        !.fetchCalls = f.calls, !.result = f.result]
    /\ UNCHANGED <<iframeSrc, loadListeners, realm, present, targetAttr, pending, standInStore>>

\* the patched xhr.open(method, url), called
XhrOpen(url) ==
    /\ LET x == patchedXhrOpen(url)
       IN  last' = [Quiet("xhr") EXCEPT !.url = url,
                        !.isCaptchaRequest = Decision(x.captcha),
                        !.result = Decision(x.withCredentials)]
    /\ UNCHANGED <<iframeSrc, loadListeners, realm, present, targetAttr, pending, standInStore>>

\* the init arguments of the fetch calls
RequestInits ==
    { RequestInit(FALSE, "undefined", "undefined", "undefined"),
      RequestInit(TRUE, "omit", "navigate", "undefined"),
      RequestInit(TRUE, "undefined", "no-cors", "text/html") }

\* how a call of originalFetch settles
FetchOutcomes == {"fulfilled", "rejected"}

NextClassifier ==
    \/ \E url \in ClassifierUrls : Classify(url)
    \/ \E url \in ClassifierUrls, init \in RequestInits,
          first \in FetchOutcomes, second \in FetchOutcomes :
          Fetch(url, init, first, second)
    \/ \E url \in ClassifierUrls : XhrOpen(url)

\* the two classifiers and the request patches, asked about the same addresses
SpecClassifier == Init /\ [][NextClassifier]_vars

-----------------------------------------------------------------------------
(* The service worker, handling fetch events *)

\* one fetch event, answered
FetchEvent(request, configOk, firstOk, retryOk, upstream, direct) ==
    /\ LET f == fetchListener(request, configOk, firstOk, retryOk, upstream, direct)
       IN  last' = [Quiet("fetchEvent") EXCEPT !.request = request,
                        !.configOk = configOk, !.firstOk = firstOk, !.retryOk = retryOk,
                        !.tried = f.tried, !.retries = f.retries, !.settled = f.settled,
                        !.upstream = upstream, !.response = f.response]
    /\ UNCHANGED <<iframeSrc, loadListeners, realm, present, targetAttr, pending, standInStore>>

\* the requests: for UV, for Scramjet, for both by their url, for neither
Requests == {Request(uv, sj) : uv \in BOOLEAN, sj \in BOOLEAN}

\* the bodies of the responses: a full document, one without a head, one
\* without head and body tags, a bare fragment
Bodies ==
    { <<"<html>", "<head>", "</head>", "<body>", "hi", "</body>", "</html>">>,
      <<"<html>", "<body>", "hi", "</body>", "</html>">>,
      <<"<html>", "hi", "</html>">>,
      <<"hi">> }

\* what a proxy engine or the network resolves to
Responses ==
    {Response("200", ct, TRUE, b) : ct \in {"text/html", "application/json"}, b \in Bodies}
    \cup {Response("204", "text/html", FALSE, <<>>)}

\* what the fetch of the catch block resolves to
DirectResponses ==
    { Response("200", "text/html", TRUE, <<"<html>", "<head>", "</head>", "</html>">>),
      Response("404", "text/plain", TRUE, <<"not found">>) }

NextWorker ==
    \E request \in Requests, configOk \in BOOLEAN, firstOk \in BOOLEAN, retryOk \in BOOLEAN,
       upstream \in Responses, direct \in DirectResponses :
        FetchEvent(request, configOk, firstOk, retryOk, upstream, direct)

SpecWorker == Init /\ [][NextWorker]_vars

-----------------------------------------------------------------------------
(* The page-level postMessage patch, called *)

\* window.postMessage(...) of the page, after fixMessagePortCloning
PagePostMessageCall(call, withTransfer, withoutTransfer) ==
    /\ LET p == pagePostMessage(call, withTransfer, withoutTransfer)
       IN  last' = [Quiet("pagePostMessage") EXCEPT !.pmCall = call, !.pmCallAfter = call,
                        !.pmCalls = p.calls, !.pmOutcomes = p.outcomes,
                        !.outcome = p.outcome]
    /\ UNCHANGED <<iframeSrc, loadListeners, realm, present, targetAttr, pending, standInStore>>

\* the messages: a string, an object, an object that holds a MessagePort
PageMessages == {"m", "object", "object+port"}

\* the calls of the page's postMessage, in both conventions
PagePostMessageCalls ==
    {Call(m, c, "https://x.test", TRUE, t) :
        m \in PageMessages, c \in {"legacy", "options"}, t \in TransferLists}
    \cup {Call(m, c, o, FALSE, <<>>) :
        m \in PageMessages, c \in {"legacy", "options"}, o \in {"https://x.test", "*", "undefined"}}

NextPagePostMessage ==
    \E call \in PagePostMessageCalls, o1 \in PrimitiveOutcomes, o2 \in PrimitiveOutcomes :
        PagePostMessageCall(call, o1, o2)

SpecPagePostMessage == Init /\ [][NextPagePostMessage]_vars

-----------------------------------------------------------------------------
(* Properties *)

\* the nearest enclosing anchor of the last click's target carries a
\* new-context marker, and a click listener is attached
ClickOnNewContextAnchor ==
    /\ last.op = "click"
    /\ realm.clickListeners > 0
    /\ closestAnchor(last.node) # "none"
    /\ targetAttr[closestAnchor(last.node)] \in NewContextMarkers

\* the last handler was a call of the overridden open with a non-empty url
OverriddenOpenWithUrl ==
    /\ last.op = "open"
    /\ realm.openWrappers > 0
    /\ Truthy(last.url)

\* C1: once injectIframeInterceptor has run two or more times on a realm,
\* exactly one override of open is active (its captured original is the
\* realm's own primitive) and at most one click listener and one observer
\* are attached.
C1_InstallIdempotent ==
    realm.runs >= 2 =>
        /\ realm.openWrappers = 1
        /\ realm.clickListeners <= 1
        /\ realm.observers <= 1

\* C2: a click on a new-context anchor, or on a descendant of one, prevents
\* the default navigation and emits exactly one NavigationIntent, carrying
\* the anchor's resolved address.
C2_ClickEmitsOneIntent ==
    ClickOnNewContextAnchor =>
        /\ last.prevented
        /\ last.nav = <<href(closestAnchor(last.node))>>

\* C3: a call of the overridden open with a non-empty url the classifier does
\* not match makes exactly one redirect, does not call the original
\* primitive, and returns a stand-in whose property reads give null and whose
\* property writes are accepted and change nothing.
C3_UntrustedOpenRedirectsOnce ==
    /\ (OverriddenOpenWithUrl /\ ~isCaptchaUrlOf[last.url]) =>
           /\ last.nav = <<last.url>>
           /\ Len(last.writes) = 1
           /\ last.orig = <<>>
           /\ last.result = "proxy"
           /\ realm.standIn
    /\ last.op = "get" => last.result = "null"
    /\ last.op = "set" => last.result = "true"
    /\ standInStore = {}

\* an untrusted open call went through stacked overrides and returned the
\* stand-in
C3_Witness ==
    /\ OverriddenOpenWithUrl
    /\ realm.openWrappers >= 2
    /\ last.url = U_Page
    /\ last.result = "proxy"
    /\ last.nav = <<U_Page>>

\* C4: a call of the overridden open whose url the classifier matches is
\* forwarded to the original primitive with the same url, target and
\* features, and emits no NavigationIntent.
C4_TrustedOpenForwarded ==
    (OverriddenOpenWithUrl /\ isCaptchaUrlOf[last.url]) =>
        /\ last.orig = << <<last.url, last.target, last.features>> >>
        /\ last.nav = <<>>
        /\ last.enc = <<>>
        /\ last.writes = <<>>

\* a mixed-case challenge address was forwarded with its target and features
C4_Witness ==
    /\ OverriddenOpenWithUrl
    /\ last.url = U_Captcha
    /\ last.features = "popup"
    /\ last.orig = << <<U_Captcha, "_blank", "popup">> >>
    /\ last.result = "window"

\* C5: every escape attempt (an open call with a url, a click on a
\* new-context anchor) ends in exactly one redirect or in being forwarded to
\* the original primitive as trusted: never both, never neither.
C5_ExactlyOneOutcome ==
    (OverriddenOpenWithUrl \/ ClickOnNewContextAnchor) =>
        \/ Len(last.nav) = 1 /\ last.orig = <<>>
        \/ last.nav = <<>> /\ Len(last.orig) = 1

\* C6: a realm-access violation raised while installing is caught inside
\* injectIframeInterceptor, and the realm keeps no patched postMessage, no
\* overridden open, no listener and no observer.
C6_AccessViolationCaught ==
    /\ realm.origin = "cross" =>
           /\ realm.pmWrappers = 0
           /\ realm.openWrappers = 0
           /\ realm.readyListeners = 0
           /\ realm.clickListeners = 0
           /\ realm.observers = 0
    /\ (last.op \in {"load", "inject"} /\ realm.origin = "cross") =>
           /\ ~last.raised
           /\ last.success = 0

\* two load listeners each ran the installation on a cross-origin realm
C6_Witness ==
    /\ last.op = "load"
    /\ realm.origin = "cross"
    /\ last.installs = 2

\* C7: with a cross-origin realm, setupIframeInterceptor and every load
\* callback return without raising, and the load listener stays attached.
C7_BindToleratesCrossOrigin ==
    (last.op \in {"setup", "load"} /\ realm.origin = "cross") =>
        /\ ~last.raised
        /\ loadListeners >= 1

\* C8: installation runs once per bound listener for every load event, and
\* once at bind time exactly when the element's realm is already complete.
C8_InstallPerLoadAndAtBind ==
    /\ last.op = "load" => last.installs = loadListeners
    /\ last.op = "setup" =>
           (last.installs = 1 <=>
                (realm.origin # "none" /\ realm.readyState = "complete"))

\* C9: every NavigationIntent is passed once to the encoder and the result is
\* written unchanged to iframe.src.
C9_RedirectWritesEncoded ==
    /\ last.enc = last.nav
    /\ Len(last.writes) = Len(last.nav)
    /\ \A i \in 1..Len(last.nav) : last.writes[i] = encodeURL(last.nav[i])
    /\ last.nav # <<>> => iframeSrc = encodeURL(last.nav[Len(last.nav)])

\* a click inside <a target="_blank" href="/p"> of https://x.test made the
\* single write of encode("https://x.test/p")
C9_Witness ==
    /\ last.op = "click"
    /\ last.node = "s1"
    /\ last.nav = <<U_Page>>
    /\ last.writes = <<encodeURL(U_Page)>>
    /\ iframeSrc = encodeURL(U_Page)

\* C10: after the observer callback for a batch of added nodes, no anchor in
\* the added subtrees carries a new-context marker, and the callback emitted
\* no NavigationIntent.
C10_InsertedMarkersStripped ==
    last.op = "observe" =>
        /\ \A n \in last.added : \A m \in Subtree(n) :
               tagName(m) = "A" => targetAttr[m] \notin NewContextMarkers
        /\ last.nav = <<>>

\* the last handler was a postMessage call that went through a wrapper
PatchedPostMessage ==
    /\ last.op = "postMessage"
    /\ realm.pmWrappers > 0

\* the types the structured-clone algorithm can transfer
TransferableTypes == {"ArrayBuffer", "MessagePort"}

RECURSIVE validSubsequence(_)
\* the entries of a transfer list that are transferables, in their order
validSubsequence(t) ==
    IF t = <<>> THEN <<>>
    ELSE IF Head(t).type \in TransferableTypes
         THEN <<Head(t)>> \o validSubsequence(Tail(t))
         ELSE validSubsequence(Tail(t))

\* C11: a patched postMessage call with a transfer list hands the primitive
\* the same message and target origin, and as transfer list exactly the
\* transferables of the caller's list, in their order.
C11_ForwardsValidSubsequence ==
    (PatchedPostMessage /\ last.pmCall.hasTransfer) =>
        /\ last.pmCalls[1].message = last.pmCall.message
        /\ last.pmCalls[1].targetOrigin = last.pmCall.targetOrigin
        /\ last.pmCalls[1].transfer = validSubsequence(last.pmCall.transfer)

\* C12: when the first invocation of the primitive fails with a
\* DataCloneError the wrapper makes exactly one more invocation, with the
\* same message and target origin and no transfer list, and the call ends as
\* that retry ended; the primitive is invoked at most twice per call.
C12_RetryOnceWithoutTransfer ==
    PatchedPostMessage =>
        /\ Len(last.pmCalls) <= 2
        /\ (last.pmOutcomes[1].name = "DataCloneError") =>
               /\ Len(last.pmCalls) = 2
               /\ last.pmCalls[2].message = last.pmCall.message
               /\ last.pmCalls[2].targetOrigin = last.pmCalls[1].targetOrigin
               /\ ~last.pmCalls[2].hasTransfer
               /\ last.pmCalls[2].transfer = <<>>
               /\ last.outcome = last.pmOutcomes[2]

\* C13 as stated: an error leaves a patched postMessage call only as the
\* DataCloneError of a failed retry.
C13_OnlyRetryErrorSurfaces ==
    (PatchedPostMessage /\ last.outcome.kind = "error") =>
        /\ Len(last.pmCalls) >= 2
        /\ last.outcome.name = "DataCloneError"

\* C13 (amended): a patched postMessage call ends as the last invocation of
\* the primitive it made ended: an error leaves it exactly when that
\* invocation failed and is that invocation's error unchanged, be it the
\* failure of a retry or a first failure the wrapper did not recognise as a
\* DataCloneError, which is rethrown without a retry.
C13_SurfacesLastPrimitiveError ==
    PatchedPostMessage =>
        /\ Len(last.pmCalls) >= 1
        /\ last.outcome = last.pmOutcomes[Len(last.pmOutcomes)]
        /\ (Len(last.pmCalls) = 1 /\ last.outcome.kind = "error") =>
               ~isDataCloneError(last.outcome)

\* a first failure that is no DataCloneError left the wrapper without a
\* retry, and the failure of a retry is the other way an error gets out
C13_Witness ==
    /\ PatchedPostMessage
    /\ realm.pmWrappers = 1
    /\ last.pmCall.hasTransfer
    /\ last.outcome = Error("SyntaxError", "parent")
    /\ Len(last.pmCalls) = 1

\* C14: however often fixPostMessage has run on a realm, one wrapper sits
\* between a caller and the realm's own postMessage.
C14_OneWrapperLayer ==
    /\ realm.pmWrappers <= 1
    /\ (realm.origin = "same" /\ realm.runs >= 1) => realm.pmWrappers = 1

\* the number of entries of the step log that report success
successes(steps) == Cardinality({i \in 1..Len(steps) : steps[i] = "success"})

\* C15: every run of the installation first patches postMessage, then
\* replaces open, then attaches the link interception at once when the
\* document is past loading and defers it to DOMContentLoaded otherwise;
\* success is reported only at the end of a run in which all three steps
\* were done or their failure was caught inside the step.
C15_InstallationOrder ==
    /\ last.success = successes(last.steps)
    /\ \A i \in 1..Len(last.steps) :
          /\ last.steps[i] = "open" =>
                i > 1 /\ last.steps[i - 1] \in {"fixPostMessage", "fixPostMessage:caught"}
          /\ last.steps[i] \in {"interceptTargetBlank", "defer"} =>
                /\ i > 2 /\ last.steps[i - 1] = "open"
                /\ (last.steps[i] = "defer") <=> (realm.readyState = "loading")
          /\ last.steps[i] = "success" =>
                i > 3 /\ last.steps[i - 1] \in {"interceptTargetBlank", "defer"}
          /\ last.steps[i] \in {"fixPostMessage", "fixPostMessage:caught"} =>
                i = 1 \/ last.steps[i - 1] \in {"success", "fixPostMessage:caught"}

\* two runs in one load event on a complete document, each in the order
\* postMessage, open, links, success
C15_Witness ==
    /\ last.op = "load"
    /\ last.steps = <<"fixPostMessage", "open", "interceptTargetBlank", "success",
                      "fixPostMessage", "open", "interceptTargetBlank", "success">>
    /\ last.success = 2

\* C16: a call of the overridden open with no url (absent or the empty
\* string) returns null, emits no NavigationIntent, does not call the
\* original primitive, writes no address and raises nothing.
C16_OpenWithoutUrlReturnsNull ==
    (last.op = "open" /\ realm.openWrappers > 0 /\ ~Truthy(last.url)) =>
        /\ last.result = "null"
        /\ last.nav = <<>>
        /\ last.orig = <<>>
        /\ last.writes = <<>>
        /\ ~last.raised

\* open("", "_blank") went through the override and came back null
C16_Witness ==
    /\ last.op = "open"
    /\ realm.openWrappers > 0
    /\ last.url = EmptyString
    /\ last.target = "_blank"
    /\ last.result = "null"

\* C17: with the click listener attached, a click on a new-context anchor or
\* inside one runs the listener before any bubble-phase handler of the
\* content, and propagation is stopped: no bubble-phase handler runs.
C17_CaptureBeforeBubble ==
    ClickOnNewContextAnchor =>
        /\ last.stopped
        /\ Len(last.ran) = realm.clickListeners
        /\ \A i \in 1..Len(last.ran) : last.ran[i] = "interceptor"

\* a click inside a new-context anchor ran the interceptor and nothing else,
\* while a click elsewhere reaches the content's handlers
C17_Witness ==
    /\ ClickOnNewContextAnchor
    /\ last.node = "s1"
    /\ last.ran = <<"interceptor">>
    /\ last.stopped

\* sub occurs in s as a run of consecutive characters
occursIn(sub, s) ==
    \E i \in 1..(Len(s) + 1) :
        i + Len(sub) - 1 <= Len(s) /\ SubSeq(s, i, i + Len(sub) - 1) = sub

\* C18: isCaptchaUrl answers every string, raises nothing, and answers true
\* exactly when the url, lower-cased, has an entry of the allowlist as a
\* substring; the answer depends on the url alone, so asking again gives the
\* same answer.
C18_ClassifierIsSubstringTest ==
    last.op = "classify" =>
        /\ ~last.raised
        /\ last.result \in {"true", "false"}
        /\ (last.result = "true") <=>
               \E k \in 1..Len(CAPTCHA_DOMAINS) :
                   occursIn(CAPTCHA_DOMAINS[k], toLowerCase(last.url))
        /\ last.result = Decision(isCaptchaUrl(last.url))

\* a mixed-case challenge address was classified as trusted
C18_Witness ==
    /\ last.op = "classify"
    /\ last.url = U_Captcha
    /\ last.result = "true"

\* C19: the network-request patches and the open override decide alike: for
\* every url, fetch and XMLHttpRequest.open treat it as a challenge request
\* exactly when isCaptchaUrl holds of it.
C19_SameClassifierEverywhere ==
    last.op \in {"fetch", "xhr"} =>
        last.isCaptchaRequest = Decision(isCaptchaUrlOf[last.url])

\* the interceptor script, as one run of the body
InterceptorScript == "<script>interceptor</script>"

\* the body b with the interceptor script right after its i-th entry
withScriptAfter(b, i) ==
    SubSeq(b, 1, i) \o <<InterceptorScript>> \o SubSeq(b, i + 1, Len(b))

\* C20: an HTML response a proxy engine returned for a contained-content
\* request, with a head-open tag in its body, is delivered with the
\* interceptor script inserted right after that tag.
C20_ScriptAfterHeadOpen ==
    ( /\ last.op = "fetchEvent"
      /\ last.tried \in {<<"uv.fetch">>, <<"sj.fetch">>}
      /\ last.upstream.contentType = "text/html"
      /\ \E i \in 1..Len(last.upstream.body) : last.upstream.body[i] = "<head>" )
    => \E i \in 1..Len(last.upstream.body) :
          /\ last.upstream.body[i] = "<head>"
          /\ last.response.body = withScriptAfter(last.upstream.body, i)

\* the last handler was a fetch event whose first attempt succeeded
FirstAttemptAnswered ==
    /\ last.op = "fetchEvent"
    /\ last.configOk
    /\ last.firstOk

\* ... and the first attempt was the call of a proxy engine
EngineAnswered ==
    /\ FirstAttemptAnswered
    /\ last.tried[1] \in {"uv.fetch", "sj.fetch"}

\* the position of the first entry of b equal to tag, 0 when there is none
firstIndex(b, tag) ==
    IF \E i \in 1..Len(b) : b[i] = tag
    THEN CHOOSE i \in 1..Len(b) : b[i] = tag /\ \A j \in 1..(i - 1) : b[j] # tag
    ELSE 0

\* the injection anchor of a body: head-open, else body-open, else html-open,
\* else none (0)
anchorOf(b) ==
    IF firstIndex(b, "<head>") # 0 THEN firstIndex(b, "<head>")
    ELSE IF firstIndex(b, "<body>") # 0 THEN firstIndex(b, "<body>")
    ELSE firstIndex(b, "<html>")

\* C21: an HTML response of a proxy engine is delivered with the script at
\* exactly one anchor, the first that exists of head-open, body-open and
\* html-open, and unmodified when none of the three exists.
C21_OneAnchorByPriority ==
    (EngineAnswered /\ last.upstream.contentType = "text/html" /\ last.upstream.hasBody) =>
        last.response.body =
            IF anchorOf(last.upstream.body) = 0 THEN last.upstream.body
            ELSE withScriptAfter(last.upstream.body, anchorOf(last.upstream.body))

\* C22: a response whose declared content type is not HTML, or that has no
\* body, is delivered as the first attempt returned it: same body, same
\* headers, same status.
C22_NonHtmlUnaltered ==
    ( /\ FirstAttemptAnswered
      /\ (last.upstream.contentType # "text/html" \/ ~last.upstream.hasBody) )
    => /\ last.response.body = last.upstream.body
       /\ last.response.hasBody = last.upstream.hasBody
       /\ last.response.contentType = last.upstream.contentType
       /\ last.response.contentLength = last.upstream.contentLength
       /\ last.response.status = last.upstream.status

\* a JSON response of the Ultraviolet engine was delivered as it came
C22_Witness ==
    /\ EngineAnswered
    /\ last.tried = <<"uv.fetch">>
    /\ last.upstream.contentType = "application/json"
    /\ last.upstream.body = <<"<html>", "<head>", "</head>", "<body>", "hi", "</body>", "</html>">>
    /\ last.response = last.upstream

C25_AlwaysAnswered ==
    last.op = "fetchEvent" =>
        /\ last.settled = "fulfilled"
        /\ last.response # NoResponse
        /\ (~(last.configOk /\ last.firstOk) /\ ~last.retryOk) =>
               last.response.status = "500"

\* the configuration did not load and the fetch of the catch block failed
\* too: the answer is the 500 response
C25_Witness ==
    /\ last.op = "fetchEvent"
    /\ ~last.configOk
    /\ ~last.retryOk
    /\ last.settled = "fulfilled"
    /\ last.response = ProxyRequestFailed

\* the handler the routing priority names for the last request
expectedHandler ==
    IF last.request.uvPrefixed THEN "uv.fetch"
    ELSE IF last.request.sjRoutes THEN "sj.fetch"
    ELSE "fetch"

\* the entries of the sequence s, as a set
entries(s) == {s[i] : i \in 1..Len(s)}

\* C26 as stated: for every fetch event the first handler tried is the one
\* the priority names: uv.fetch for a UV-prefixed url, else sj.fetch for a
\* request Scramjet routes, else the pass-through fetch.
C26_RoutedByPriority ==
    last.op = "fetchEvent" =>
        /\ Len(last.tried) >= 1
        /\ last.tried[1] = expectedHandler
        /\ last.request.uvPrefixed => "sj.fetch" \notin entries(last.tried)

\* C26 (amended): once sj.loadConfig() has succeeded, the first handler tried
\* is the one the priority names, and a UV-prefixed request is never handed
\* to Scramjet; when sj.loadConfig() fails no handler is chosen and the
\* request goes to the fetch of the catch block.
C26_RoutedByPriorityOnceConfigured ==
    last.op = "fetchEvent" =>
        /\ last.configOk =>
              /\ Len(last.tried) >= 1
              /\ last.tried[1] = expectedHandler
              /\ Len(last.tried) - Len(last.retries) = 1
        /\ ~last.configOk => last.tried = <<"fetch">> /\ last.retries = <<"fetch">>
        /\ last.request.uvPrefixed => "sj.fetch" \notin entries(last.tried)

\* a request both engines would take went to Ultraviolet
C26_Witness ==
    /\ last.op = "fetchEvent"
    /\ last.configOk
    /\ last.request.uvPrefixed
    /\ last.request.sjRoutes
    /\ last.tried = <<"uv.fetch">>

\* C27: when the first attempt fails, in loading the configuration or in the
\* handler chosen, exactly one retry is made, a plain fetch of the request;
\* when it succeeds no retry is made; there is never a second retry.
C27_OneDirectRetry ==
    last.op = "fetchEvent" =>
        /\ Len(last.retries) <= 1
        /\ (last.configOk /\ last.firstOk) => last.retries = <<>>
        /\ ~(last.configOk /\ last.firstOk) =>
              /\ last.retries = <<"fetch">>
              /\ last.tried[Len(last.tried)] = "fetch"
        /\ Len(last.tried) <= 2

\* a failed Ultraviolet fetch was retried once, by a plain fetch
C27_Witness ==
    /\ last.op = "fetchEvent"
    /\ last.configOk
    /\ ~last.firstOk
    /\ last.tried = <<"uv.fetch", "fetch">>
    /\ last.retries = <<"fetch">>

ClickOutsideNewContextAnchor ==
    /\ last.op = "click"
    /\ \/ closestAnchor(last.node) = "none"
       \/ targetAttr[closestAnchor(last.node)] \notin NewContextMarkers

\* C28: a click whose target has no enclosing anchor, or whose nearest
\* enclosing anchor has no target attribute or one other than "_blank" and
\* "_new", is left alone: default not prevented, propagation not stopped (the
\* content's handlers run), no NavigationIntent and no address written.
C28_OtherClicksUntouched ==
    ClickOutsideNewContextAnchor =>
        /\ ~last.prevented
        /\ ~last.stopped
        /\ last.nav = <<>>
        /\ last.writes = <<>>
        /\ last.ran = repeat(<<"interceptor">>, realm.clickListeners) \o contentHandlers

\* a click on an anchor with target "_self" passed the attached listener
\* untouched
C28_Witness ==
    /\ ClickOutsideNewContextAnchor
    /\ realm.clickListeners > 0
    /\ last.node = "a3"
    /\ ~last.prevented
    /\ last.nav = <<>>

\* C29: a click on a new-context anchor whose address the classifier trusts
\* is handled like a click on any other new-context anchor: the default is
\* prevented and exactly one redirect to the anchor's address is made, with
\* nothing forwarded to an original primitive.
C29_ClickIgnoresClassifier ==
    ( /\ ClickOnNewContextAnchor
      /\ href(closestAnchor(last.node)) \in DOMAIN isCaptchaUrlOf
      /\ isCaptchaUrlOf[href(closestAnchor(last.node))] )
    => /\ last.prevented
       /\ last.nav = <<href(closestAnchor(last.node))>>
       /\ Len(last.writes) = 1
       /\ last.orig = <<>>

\* what doc.body || doc.documentElement is in the realm's document
expectedObserveTarget ==
    IF realm.hasBody THEN "body" ELSE IF realm.hasRoot THEN "documentElement" ELSE "null"

\* C30: every observer is attached to the document's body, or to the root
\* element when there is no body, for child-list changes in the whole
\* subtree; when the document has neither, no observer is attached, and the
\* capturing click listener is installed all the same, once per run of the
\* link interception.
C30_ObserverOnBodyOrRoot ==
    /\ realm.observers = Len(realm.observed)
    /\ \A i \in 1..Len(realm.observed) :
          /\ realm.observed[i].target = expectedObserveTarget
          /\ realm.observed[i].childList
          /\ realm.observed[i].subtree
    /\ realm.clickListeners = realm.runs - realm.readyListeners
    /\ realm.observers = IF expectedObserveTarget = "null" THEN 0 ELSE realm.clickListeners

\* link interception was set up on a document with a root element and no
\* body: the observer is on the root element
C30_Witness ==
    /\ ~realm.hasBody
    /\ realm.hasRoot
    /\ realm.clickListeners >= 1
    /\ realm.observed[1] = Observation("documentElement")

\* the same message, target origin and transfer list, handed over in the
\* other calling convention
otherConvention(call) ==
    [call EXCEPT !.convention = IF @ = "legacy" THEN "options" ELSE "legacy"]

\* what the primitive is first handed when the call goes through the
\* wrappers of the realm
firstForwarded(call) == callPostMessage(realm.pmWrappers, call, Ok, Ok).calls[1]

\* C31: a patched postMessage call with a target-origin string and a
\* transfer list forwards the same message, the same target origin and the
\* same filtered transfer list as the call with the same values in the other
\* convention, (message, targetOrigin, transfer) or (message, {targetOrigin,
\* transfer}), and leaves the caller's options object as it was.
C31_ConventionsEquivalent ==
    ( /\ PatchedPostMessage
      /\ last.pmCall.hasTransfer
      /\ last.pmCall.targetOrigin # "undefined" )
    => /\ last.pmCalls[1].message = firstForwarded(otherConvention(last.pmCall)).message
       /\ last.pmCalls[1].targetOrigin =
              firstForwarded(otherConvention(last.pmCall)).targetOrigin
       /\ last.pmCalls[1].transfer = firstForwarded(otherConvention(last.pmCall)).transfer
       /\ last.pmCalls[1].message = last.pmCall.message
       /\ last.pmCalls[1].targetOrigin = last.pmCall.targetOrigin
       /\ last.pmCallAfter = last.pmCall

\* an options-object call with a port, a buffer and a plain object forwarded
\* the port and the buffer, as the positional call does
C31_Witness ==
    /\ PatchedPostMessage
    /\ last.pmCall.convention = "options"
    /\ Len(last.pmCall.transfer) = 3
    /\ last.pmCalls[1].transfer = <<Item("MessagePort", "parent"), Item("ArrayBuffer", "parent")>>
    /\ last.pmCalls[1].targetOrigin = "https://x.test"

\* C32: when the first invocation of the primitive by the page-level wrapper
\* fails, the fallback sends the same message to the target origin the first
\* invocation was given, in both calling conventions, and no more than one
\* fallback is made.
C32_FallbackKeepsTargetOrigin ==
    last.op = "pagePostMessage" =>
        /\ Len(last.pmCalls) <= 2
        /\ Len(last.pmCalls) = 2 =>
              /\ last.pmCalls[2].message = last.pmCalls[1].message
              /\ last.pmCalls[2].targetOrigin = last.pmCalls[1].targetOrigin

\* C33: the patched fetch hands a request whose url matches no entry of the
\* handler's list to the original fetch once, with the input and init it was
\* given, and settles as that call settles; a request that matches is tried
\* once more after a failure, with { credentials: "include" } as its only
\* setting, and settles as that retry settles.
C33_FetchRetriesOnlyCaptcha ==
    last.op = "fetch" =>
        /\ \A i \in 1..Len(last.fetchCalls) : last.fetchCalls[i].input = last.url
        /\ last.isCaptchaRequest = "false" =>
              /\ last.fetchCalls = <<FetchArgs(last.url, last.fetchInit)>>
              /\ last.result = last.fetchFirst
        /\ last.isCaptchaRequest = "true" =>
              /\ Len(last.fetchCalls) <= 2
              /\ last.fetchFirst = "fulfilled" =>
                    Len(last.fetchCalls) = 1 /\ last.result = "fulfilled"
              /\ last.fetchFirst = "rejected" =>
                    /\ Len(last.fetchCalls) = 2
                    /\ last.fetchCalls[2].init.credentials = "include"
                    /\ last.fetchCalls[2].init.mode = "undefined"
                    /\ last.fetchCalls[2].init.accept = "undefined"
                    /\ last.result = last.fetchSecond

\* a failed request to an ordinary address, made with an init, was not
\* retried and its failure reached the caller
C33_Witness ==
    /\ last.op = "fetch"
    /\ last.url = U_Page
    /\ last.fetchInit.given
    /\ last.fetchFirst = "rejected"
    /\ last.fetchSecond = "fulfilled"
    /\ last.result = "rejected"
    /\ Len(last.fetchCalls) = 1

=============================================================================
